---- MODULE Spec2Model ----
(***************************************************************************)
(* The Shopify Partners source connector: the GraphQL query builder        *)
(* (ShopifyPartnersAPI), the stream classes (parse_response,               *)
(* next_page_token, request_body_json), the page-by-page read loop that    *)
(* drives one stream, and the connection probe (check_connection).         *)
(*                                                                         *)
(* Python values are modelled as follows.  A dict is a record (a function  *)
(* on strings); a missing key is a field that is not in its DOMAIN.  A     *)
(* list is a sequence.  A string built by an f-string or by join is the    *)
(* sequence of its pieces.  None is the value None below.  The outcome of  *)
(* an expression that may raise is Ok(v) or an error record.               *)
(***************************************************************************)
EXTENDS Integers, Sequences, FiniteSets, TLC

\* ------------------------------------------------------------------ bounds
\* Most requests one recorded run may issue.
MaxPages == 3
\* Most edges the server puts on one page.
MaxEdges == 2
\* Most edges the server holds for the stream of one recorded run.
MaxItems == 4
\* Most calls of streams() the host makes on one source object.
MaxCalls == 3
\* Most documents built on one pair of builder objects.
MaxBuilds == 2
\* Most runs of one stream, one after the other.
MaxRuns == 2

\* ------------------------------------------------------------ Python values
None == "None"
\* None where a dict is expected (a variable that holds no dict yet).
NoDict == [none |-> TRUE]

Ok(v) == [ok |-> TRUE, val |-> v]
KeyError == [ok |-> FALSE, err |-> "KeyError"]
IndexError == [ok |-> FALSE, err |-> "IndexError"]

\* A Python value whose type matters: None, a str (as its pieces) or an int.
PyNone == [NoneType |-> TRUE]
PyStr(pieces) == [str |-> pieces]
PyNumber(n) == [int |-> n]

\* str(x), as f"{x}" formats it: a str is itself, None is "None", an int its
\* decimal digits.
PyFormat(x) ==
    CASE "str" \in DOMAIN x -> x.str
      [] "NoneType" \in DOMAIN x -> <<"None">>
      [] "int" \in DOMAIN x -> <<CASE x.int = 401 -> "401" [] x.int = 0 -> "0">>

\* int(x) for the configured page size: an int is kept, a str of digits is
\* parsed.
PyInt(x) ==
    IF "int" \in DOMAIN x THEN x.int
    ELSE CASE x.str = <<"1">> -> 1
           [] x.str = <<"2">> -> 2
           [] x.str = <<"10">> -> 10

\* d[k1][k2]...[kn] on nested dicts: the first missing key raises KeyError.
RECURSIVE GetPath(_, _)
GetPath(d, path) ==
    IF path = <<>> THEN Ok(d)
    ELSE IF Head(path) \in DOMAIN d THEN GetPath(d[Head(path)], Tail(path))
    ELSE KeyError

\* sep.join(items), as the sequence of the pieces of the result.
RECURSIVE Join(_, _)
Join(items, sep) ==
    IF items = <<>> THEN <<>>
    ELSE IF Len(items) = 1 THEN <<items[1]>>
    ELSE <<items[1], sep>> \o Join(Tail(items), sep)


\* ------------------------------------------------------------- query builder
\* The methods of ShopifyPartnersAPI that bind one event type each.
EventTypes ==
    [get_events_installs |-> <<"RELATIONSHIP_INSTALLED">>,
     get_events_uninstalls |-> <<"RELATIONSHIP_UNINSTALLED">>,
     get_events_deactivations |-> <<"RELATIONSHIP_DEACTIVATED">>,
     get_events_reactivations |-> <<"RELATIONSHIP_REACTIVATED">>,
     get_events_subscription_approaching_capped_amount |->
         <<"SUBSCRIPTION_APPROACHING_CAPPED_AMOUNT">>,
     get_events_subscription_capped_amount_updated |->
         <<"SUBSCRIPTION_CAPPED_AMOUNT_UPDATED">>,
     get_events_subscription_charge_accepted |-> <<"SUBSCRIPTION_CHARGE_ACCEPTED">>,
     get_events_subscription_charge_activated |-> <<"SUBSCRIPTION_CHARGE_ACTIVATED">>,
     get_events_subscription_charge_canceled |-> <<"SUBSCRIPTION_CHARGE_CANCELED">>,
     get_events_subscription_charge_declined |-> <<"SUBSCRIPTION_CHARGE_DECLINED">>,
     get_events_subscription_charge_expired |-> <<"SUBSCRIPTION_CHARGE_EXPIRED">>,
     get_events_subscription_charge_frozen |-> <<"SUBSCRIPTION_CHARGE_FROZEN">>,
     get_events_subscription_charge_unfrozen |-> <<"SUBSCRIPTION_CHARGE_UNFROZEN">>,
     get_events_credit_applied |-> <<"CREDIT_APPLIED">>,
     get_events_credit_failed |-> <<"CREDIT_FAILED">>,
     get_events_credit_pending |-> <<"CREDIT_PENDING">>,
     get_events_one_time_charge_accepted |-> <<"ONE_TIME_CHARGE_ACCEPTED">>,
     get_events_one_time_charge_activated |-> <<"ONE_TIME_CHARGE_ACTIVATED">>,
     get_events_one_time_charge_declined |-> <<"ONE_TIME_CHARGE_DECLINED">>,
     get_events_one_time_charge_expired |-> <<"ONE_TIME_CHARGE_EXPIRED">>,
     get_events_usage_charge_applied |-> <<"USAGE_CHARGE_APPLIED">>]

\* ShopifyPartnersAPI(partners_api_key, partners_organization_id,
\* partners_api_version): the builder object; no method reads its fields.
ShopifyPartnersAPI(key, org, version) ==
    [partners_api_key |-> key,
     partners_organization_id |-> org,
     partners_api_version |-> version]

compose_transactions_query(self, app_id, first, after) ==
    [query |-> <<"query GetTransactions { transactions { pageInfo edges { cursor node { createdAt id } } } }">>,
     variables |-> [appId |-> app_id, first |-> first, after |-> after]]

\* The events document as it would be if the builder wrote the API version
\* of its constructor into it.
compose_event_query_versioned(self, app_id, event_types, first, after) ==
    LET types_fragment == <<"[">> \o Join(event_types, ", ") \o <<"]">>
    IN [query |-> <<"query GetAppEvents { app { events(types: ">>
                    \o types_fragment
                    \o <<") { pageInfo edges { cursor node { ...EventDetails } } } } } fragments">>
                    \o <<"# ", self.partners_api_version>>,
        variables |-> [appId |-> app_id, first |-> first, after |-> after]]

compose_event_query(self, app_id, event_types, first, after) ==
    LET types_fragment == <<"[">> \o Join(event_types, ", ") \o <<"]">>
    IN [query |-> <<"query GetAppEvents { app { events(types: ">>
                    \o types_fragment
                    \o <<") { pageInfo edges { cursor node { ...EventDetails } } } } } fragments">>,
        variables |-> [appId |-> app_id, first |-> first, after |-> after]]

\* api.<method>(app_id, first, after) for every public method of the builder.
ApiCall(self, method, app_id, first, after) ==
    IF method = "get_all_transactions"
    THEN compose_transactions_query(self, app_id, first, after)
    ELSE compose_event_query(self, app_id, EventTypes[method], first, after)

\* partners_api.py: the get_events_* methods of its ShopifyPartnersAPI and
\* the event type each binds.
PartnersEventTypes ==
    [get_events_installs |-> <<"RELATIONSHIP_INSTALLED">>,
     get_events_uninstalls |-> <<"RELATIONSHIP_UNINSTALLED">>,
     get_events_deactivations |-> <<"RELATIONSHIP_DEACTIVATED">>,
     get_events_reactivations |-> <<"RELATIONSHIP_REACTIVATED">>,
     get_events_subscription_approaching_capped_amount |->
         <<"SUBSCRIPTION_APPROACHING_CAPPED_AMOUNT">>,
     get_events_subscription_capped_amount_updated |->
         <<"SUBSCRIPTION_CAPPED_AMOUNT_UPDATED">>,
     get_events_subscription_charge_accepted |-> <<"SUBSCRIPTION_CHARGE_ACCEPTED">>,
     get_events_subscription_charge_activated |-> <<"SUBSCRIPTION_CHARGE_ACTIVATED">>,
     get_events_subscription_charge_canceled |-> <<"SUBSCRIPTION_CHARGE_CANCELED">>,
     get_events_subscription_charge_declined |-> <<"SUBSCRIPTION_CHARGE_DECLINED">>,
     get_events_subscription_charge_expired |-> <<"SUBSCRIPTION_CHARGE_EXPIRED">>,
     get_events_subscription_charge_frozen |-> <<"SUBSCRIPTION_CHARGE_FROZEN">>,
     get_events_subscription_charge_unfrozen |-> <<"SUBSCRIPTION_CHARGE_UNFROZEN">>,
     get_events_credit_applied |-> <<"CREDIT_APPLIED">>,
     get_events_credit_failed |-> <<"CREDIT_FAILED">>,
     get_events_credit_pending |-> <<"CREDIT_PENDING">>,
     get_events_one_time_charge_accepted |-> <<"ONE_TIME_CHARGE_ACCEPTED">>,
     get_events_one_time_charge_activated |-> <<"ONE_TIME_CHARGE_ACTIVATED">>,
     get_events_one_time_charge_declined |-> <<"ONE_TIME_CHARGE_DECLINED">>,
     get_events_one_time_charge_expired |-> <<"ONE_TIME_CHARGE_EXPIRED">>,
     get_events_usage_charge_applied |-> <<"USAGE_CHARGE_APPLIED">>]

\* _compose_query of partners_api.py as it would be if the copy had been
\* left without the charge fragments that source.py's document has.
compose_query_without_charges(self, app_id, event_types, first, after) ==
    LET types_fragment == <<"[">> \o Join(event_types, ", ") \o <<"]">>
    IN [query |-> <<"query GetAppEvents { app { events(types: ">>
                    \o types_fragment
                    \o <<") { pageInfo edges { cursor node { ...EventDetails } } } } }">>,
        variables |-> [appId |-> app_id, first |-> first, after |-> after]]

\* ShopifyPartnersAPI._compose_query of partners_api.py.
compose_query(self, app_id, event_types, first, after) ==
    LET types_fragment == <<"[">> \o Join(event_types, ", ") \o <<"]">>
    IN [query |-> <<"query GetAppEvents { app { events(types: ">>
                    \o types_fragment
                    \o <<") { pageInfo edges { cursor node { ...EventDetails } } } } } fragments">>,
        variables |-> [appId |-> app_id, first |-> first, after |-> after]]

\* api.<method>(app_id, first, after) on the builder of partners_api.py.
PartnersApiCall(self, method, app_id, first, after) ==
    compose_query(self, app_id, PartnersEventTypes[method], first, after)

\* ------------------------------------------------------------------- streams
\* The stream classes of source.py: their base class and the builder method
\* their request_body_json calls.
StreamBase ==
    [RelationshipInstalls |-> "Relationship",
     RelationshipUninstalls |-> "Relationship",
     RelationshipReactivated |-> "Relationship",
     RelationshipDeactivated |-> "Relationship",
     SubscriptionCappedAmountUpdated |-> "SubscriptionWithCost",
     SubscriptionApproachingCappedAmount |-> "SubscriptionWithCost",
     SubscriptionChargeAccepted |-> "SubscriptionWithCost",
     SubscriptionChargeActivated |-> "SubscriptionWithCost",
     SubscriptionChargeCanceled |-> "SubscriptionWithCost",
     SubscriptionChargeDeclined |-> "SubscriptionWithCost",
     SubscriptionChargeExpired |-> "SubscriptionWithCost",
     SubscriptionChargeFrozen |-> "SubscriptionWithCost",
     SubscriptionChargeUnfrozen |-> "SubscriptionWithCost",
     UsageChargeApplied |-> "SubscriptionWithCost",
     CreditApplied |-> "Credit",
     CreditPending |-> "Credit",
     CreditFailed |-> "Credit",
     OneTimeChargeAccepted |-> "SubscriptionWithCost",
     OneTimeChargeActivated |-> "SubscriptionWithCost",
     OneTimeChargeDeclined |-> "SubscriptionWithCost",
     OneTimeChargeExpired |-> "SubscriptionWithCost",
     AllTransactions |-> "Transactions"]

StreamMethod ==
    [RelationshipInstalls |-> "get_events_installs",
     RelationshipUninstalls |-> "get_events_uninstalls",
     RelationshipReactivated |-> "get_events_reactivations",
     RelationshipDeactivated |-> "get_events_deactivations",
     SubscriptionCappedAmountUpdated |-> "get_events_subscription_capped_amount_updated",
     SubscriptionApproachingCappedAmount |->
         "get_events_subscription_approaching_capped_amount",
     SubscriptionChargeAccepted |-> "get_events_subscription_charge_accepted",
     SubscriptionChargeActivated |-> "get_events_subscription_charge_activated",
     SubscriptionChargeCanceled |-> "get_events_subscription_charge_canceled",
     SubscriptionChargeDeclined |-> "get_events_subscription_charge_declined",
     SubscriptionChargeExpired |-> "get_events_subscription_charge_expired",
     SubscriptionChargeFrozen |-> "get_events_subscription_charge_frozen",
     SubscriptionChargeUnfrozen |-> "get_events_subscription_charge_unfrozen",
     UsageChargeApplied |-> "get_events_usage_charge_applied",
     CreditApplied |-> "get_events_credit_applied",
     CreditPending |-> "get_events_credit_pending",
     CreditFailed |-> "get_events_credit_failed",
     OneTimeChargeAccepted |-> "get_events_one_time_charge_accepted",
     OneTimeChargeActivated |-> "get_events_one_time_charge_activated",
     OneTimeChargeDeclined |-> "get_events_one_time_charge_declined",
     OneTimeChargeExpired |-> "get_events_one_time_charge_expired",
     AllTransactions |-> "get_all_transactions"]

\* ShopifyPartnersStream.__init__: the fields a stream derives from config.
StreamInit(name, cfg) ==
    [name |-> name,
     url_base |-> <<"https://partners.shopify.com/", cfg.partner_id, "/api/",
                    cfg.api_version, "/graphql.json">>,
     application_id |-> <<"gid://partners/App/", cfg.application_id>>,
     api_key |-> cfg.api_key,
     api_version |-> cfg.api_version,
     config |-> cfg]

\* request_body_json as it would be if the page size were passed on the
\* first page only: later pages fall back to the builder's default of 10.
request_body_json_default_first(self, next_page_token) ==
    LET api == ShopifyPartnersAPI(self.api_key, self.api_version, "2024-01")
    IN ApiCall(api, StreamMethod[self.name], self.application_id,
               IF next_page_token = None
               THEN PyInt(self.config.num_results_per_call) ELSE 10,
               next_page_token)

\* <Stream>.request_body_json(stream_state, stream_slice, next_page_token).
request_body_json(self, next_page_token) ==
    LET api == ShopifyPartnersAPI(self.api_key, self.api_version, "2024-01")
    IN ApiCall(api, StreamMethod[self.name], self.application_id,
               PyInt(self.config.num_results_per_call), next_page_token)

request_headers(self) ==
    [XShopifyAccessToken |-> self.api_key, ContentType |-> "application/json"]

\* path() as it would be if the stream named a resource under the endpoint.
path_appended(self) == "events"

\* <Stream>.path(...): nothing is appended, the endpoint is the whole URL.
path(self) == ""

\* HttpStream._join_url(url_base, path), which is urljoin: an empty path
\* leaves the base as it is, another one replaces its last segment.
join_url(url_base, url_path) ==
    IF url_path = "" THEN url_base
    ELSE SubSeq(url_base, 1, Len(url_base) - 1) \o <<"/", url_path>>

\* ShopifyPartnersStream._create_prepared_request(path, headers, params,
\* json, data): the method is always POST.
create_prepared_request(self, url_path, headers, json) ==
    [method |-> "POST",
     url |-> join_url(self.url_base, url_path),
     headers |-> headers,
     json |-> json]

\* The connection path as it would be if the transactions stream read the
\* path of the event streams it was copied from.
ConnectionPath_events_only(base) == <<"data", "app", "events">>

\* The connection of the decoded body a stream class reads.
ConnectionPath(base) ==
    IF base = "Transactions" THEN <<"data", "transactions">>
    ELSE <<"data", "app", "events">>

\* The /<path> a decoded body is read along, with one more key.
PathTo(base, key) == ConnectionPath(base) \o <<key>>

\* The dict one edge of an event stream is reshaped into.
RelationshipShape(node) ==
    [event_type |-> node.type,
     occurredAt |-> node.occurredAt,
     app_id |-> node.app.id,
     app_name |-> node.app.name,
     shop_id |-> node.shop.id,
     shop_name |-> node.shop.name]

CreditShape(node) ==
    [type |-> node.type,
     occurredAt |-> node.occurredAt,
     app_id |-> node.app.id,
     app_name |-> node.app.name,
     shop_id |-> node.shop.id,
     shop_name |-> node.shop.name,
     app_credit_id |-> node.charge.id,
     app_credit_test |-> node.charge.test,
     app_credit_name |-> node.charge.name,
     app_credit_amount |-> node.charge.amount.amount,
     app_credit_currency_code |-> node.charge.amount.currencyCode]

SubscriptionWithCostShape(node) ==
    [type |-> node.type,
     occurredAt |-> node.occurredAt,
     app_id |-> node.app.id,
     app_name |-> node.app.name,
     shop_id |-> node.shop.id,
     shop_name |-> node.shop.name,
     charge_id |-> node.charge.id,
     charge_test |-> node.charge.test,
     charge_name |-> node.charge.name,
     charge_billingOn |-> node.charge.billingOn,
     charge_amount |-> node.charge.amount]

TransactionShape(node) ==
    [createdAt |-> node.createdAt, id |-> node.id]

\* The key paths of event["node"] each shape subscripts.
EventKeys ==
    {<<"type">>, <<"occurredAt">>, <<"app", "id">>, <<"app", "name">>,
     <<"shop", "id">>, <<"shop", "name">>}

ReferencedKeys(base) ==
    CASE base = "Relationship" -> EventKeys
      [] base = "Credit" ->
            EventKeys \cup {<<"charge", "id">>, <<"charge", "test">>, <<"charge", "name">>,
                            <<"charge", "amount", "amount">>,
                            <<"charge", "amount", "currencyCode">>}
      [] base = "SubscriptionWithCost" ->
            EventKeys \cup {<<"charge", "id">>, <<"charge", "test">>, <<"charge", "name">>,
                            <<"charge", "billingOn">>, <<"charge", "amount">>}
      [] base = "Transactions" -> {<<"createdAt">>, <<"id">>}

\* The loop body as it would be with defensive defaulting: a node that lacks
\* a referenced key yields a placeholder record instead of raising.
MapEdge_defaulting(base, event) ==
    IF "node" \notin DOMAIN event THEN Ok([node |-> None])
    ELSE IF \E p \in ReferencedKeys(base) : ~GetPath(event.node, p).ok
    THEN Ok([type |-> GetPath(event.node, <<"type">>), incomplete |-> TRUE])
    ELSE CASE base = "Relationship" -> Ok(RelationshipShape(event.node))
           [] base = "Credit" -> Ok(CreditShape(event.node))
           [] base = "SubscriptionWithCost" -> Ok(SubscriptionWithCostShape(event.node))
           [] base = "Transactions" -> Ok(TransactionShape(event.node))

\* The loop body as it would be if the credit mapping took the credit from
\* where the query's AppCreditEvent fragment puts it: a node with appCredit
\* is mapped from appCredit, any other as the code maps it.
MapEdge_from_appCredit(base, event) ==
    IF "node" \notin DOMAIN event THEN KeyError
    ELSE IF /\ base = "Credit"
            /\ "appCredit" \in DOMAIN event.node
            /\ \A p \in EventKeys : GetPath(event.node, p).ok
    THEN Ok([type |-> event.node.type,
             occurredAt |-> event.node.occurredAt,
             app_id |-> event.node.app.id,
             app_name |-> event.node.app.name,
             shop_id |-> event.node.shop.id,
             shop_name |-> event.node.shop.name,
             app_credit_id |-> event.node.appCredit.id,
             app_credit_test |-> event.node.appCredit.test,
             app_credit_name |-> event.node.appCredit.name])
    ELSE IF \E p \in ReferencedKeys(base) : ~GetPath(event.node, p).ok THEN KeyError
    ELSE CASE base = "Relationship" -> Ok(RelationshipShape(event.node))
           [] base = "Credit" -> Ok(CreditShape(event.node))
           [] base = "SubscriptionWithCost" -> Ok(SubscriptionWithCostShape(event.node))
           [] base = "Transactions" -> Ok(TransactionShape(event.node))

\* The body of the for loop of parse_response for one edge: the yielded dict,
\* or the KeyError of the first subscript whose key is missing.
MapEdge(base, event) ==
    IF "node" \notin DOMAIN event THEN KeyError
    ELSE IF \E p \in ReferencedKeys(base) : ~GetPath(event.node, p).ok THEN KeyError
    ELSE CASE base = "Relationship" -> Ok(RelationshipShape(event.node))
           [] base = "Credit" -> Ok(CreditShape(event.node))
           [] base = "SubscriptionWithCost" -> Ok(SubscriptionWithCostShape(event.node))
           [] base = "Transactions" -> Ok(TransactionShape(event.node))

\* The outcomes of edges[1..n] in order, cut after the first one that raises.
RECURSIVE MapEdges(_, _)
MapEdges(base, edges) ==
    IF edges = <<>> THEN <<>>
    ELSE LET first == MapEdge(base, Head(edges))
         IN IF first.ok THEN <<first>> \o MapEdges(base, Tail(edges))
            ELSE <<first>>

\* parse_response as it would be if it walked the edge list backwards.
RECURSIVE Reverse(_)
Reverse(seq) ==
    IF seq = <<>> THEN <<>> ELSE Reverse(Tail(seq)) \o <<Head(seq)>>

parse_response_reversed(base, response_data) ==
    LET edges == GetPath(response_data, PathTo(base, "edges"))
    IN IF edges.ok THEN MapEdges(base, Reverse(edges.val)) ELSE <<KeyError>>

\* parse_response as it would be if its loop stopped one edge short.
parse_response_drops_last(base, response_data) ==
    LET edges == GetPath(response_data, PathTo(base, "edges"))
    IN IF edges.ok
       THEN MapEdges(base, SubSeq(edges.val, 1, Len(edges.val) - 1))
       ELSE <<KeyError>>

\* parse_response as it would be if it built the list of records before
\* handing out the first: a page with an edge that cannot be mapped raises
\* at the first pull.
parse_response_eager(base, response_data) ==
    LET edges == GetPath(response_data, PathTo(base, "edges"))
    IN IF ~edges.ok THEN <<KeyError>>
       ELSE IF \E i \in 1..Len(edges.val) : ~MapEdge(base, edges.val[i]).ok
       THEN <<KeyError>>
       ELSE MapEdges(base, edges.val)

\* <Stream>.parse_response(response): the generator, as the sequence of what
\* successive pulls produce.  Element k is computed by pull k; an error ends it.
parse_response(base, response_data) ==
    LET edges == GetPath(response_data, PathTo(base, "edges"))
    IN IF edges.ok THEN MapEdges(base, edges.val) ELSE <<KeyError>>

\* next_page_token as it would be if it never looked at hasNextPage and
\* went on for as long as a page has edges.
next_page_token_unconditional(base, response_data) ==
    LET edges == GetPath(response_data, PathTo(base, "edges"))
    IN IF ~edges.ok THEN KeyError
       ELSE IF Len(edges.val) = 0 THEN Ok(None)
       ELSE GetPath(edges.val[Len(edges.val)], <<"cursor">>)

\* next_page_token as it would be if it took edges[0] instead of edges[-1].
next_page_token_first_edge(base, response_data) ==
    LET hasNextPage == GetPath(response_data, PathTo(base, "pageInfo") \o <<"hasNextPage">>)
        edges == GetPath(response_data, PathTo(base, "edges"))
    IN IF ~hasNextPage.ok THEN KeyError
       ELSE IF hasNextPage.val = TRUE
       THEN IF ~edges.ok THEN KeyError
            ELSE IF Len(edges.val) = 0 THEN IndexError
            ELSE GetPath(edges.val[1], <<"cursor">>)
       ELSE Ok(None)

\* next_page_token as it would be if it read edges[-1] before testing
\* hasNextPage.
next_page_token_eager_cursor(base, response_data) ==
    LET hasNextPage == GetPath(response_data, PathTo(base, "pageInfo") \o <<"hasNextPage">>)
        edges == GetPath(response_data, PathTo(base, "edges"))
    IN IF ~edges.ok THEN KeyError
       ELSE IF Len(edges.val) = 0 THEN IndexError
       ELSE IF ~hasNextPage.ok THEN KeyError
       ELSE IF hasNextPage.val = TRUE
       THEN GetPath(edges.val[Len(edges.val)], <<"cursor">>)
       ELSE Ok(None)

\* next_page_token as it would be if it read pageInfo with .get(): a body
\* without the pagination path counts as the last page.
next_page_token_lenient(base, response_data) ==
    LET hasNextPage == GetPath(response_data, PathTo(base, "pageInfo") \o <<"hasNextPage">>)
        edges == GetPath(response_data, PathTo(base, "edges"))
    IN IF ~hasNextPage.ok THEN Ok(None)
       ELSE IF hasNextPage.val = TRUE
       THEN IF ~edges.ok THEN KeyError
            ELSE IF Len(edges.val) = 0 THEN IndexError
            ELSE GetPath(edges.val[Len(edges.val)], <<"cursor">>)
       ELSE Ok(None)

\* next_page_token as it would be if a page without edges counted as the
\* last one, whatever it reports.
next_page_token_empty_terminal(base, response_data) ==
    LET hasNextPage == GetPath(response_data, PathTo(base, "pageInfo") \o <<"hasNextPage">>)
        edges == GetPath(response_data, PathTo(base, "edges"))
    IN IF ~hasNextPage.ok THEN KeyError
       ELSE IF hasNextPage.val = TRUE
       THEN IF ~edges.ok THEN KeyError
            ELSE IF Len(edges.val) = 0 THEN Ok(None)
            ELSE GetPath(edges.val[Len(edges.val)], <<"cursor">>)
       ELSE Ok(None)

\* <Stream>.next_page_token(response): the last edge's cursor when the page
\* reports hasNextPage, else None; a missing key or an empty edge list raises.
next_page_token(base, response_data) ==
    LET hasNextPage == GetPath(response_data, PathTo(base, "pageInfo") \o <<"hasNextPage">>)
        edges == GetPath(response_data, PathTo(base, "edges"))
    IN IF ~hasNextPage.ok THEN KeyError
       ELSE IF hasNextPage.val = TRUE
       THEN IF ~edges.ok THEN KeyError
            ELSE IF Len(edges.val) = 0 THEN IndexError
            ELSE GetPath(edges.val[Len(edges.val)], <<"cursor">>)
       ELSE Ok(None)

\* -------------------------------------------------------- what the server sends
Cursors == {"c1", "c2"}

\* A complete subscription event node (it also has a transaction's keys).
NodeCharge ==
    [type |-> "CREDIT_APPLIED", occurredAt |-> "2024-01-01T00:00:00Z",
     createdAt |-> "2024-01-01T00:00:00Z", id |-> "gid://1",
     app |-> [id |-> "1", name |-> "A"], shop |-> [id |-> "2", name |-> "S"],
     charge |-> [id |-> "3", test |-> FALSE, name |-> "c", billingOn |-> "2024-02-01",
                 amount |-> [amount |-> "10.00", currencyCode |-> "USD"]]]

\* A credit event node as the query's AppCreditEvent fragment returns it:
\* appCredit and no charge.
NodeAppCredit ==
    [type |-> "CREDIT_PENDING", occurredAt |-> "2024-01-02T00:00:00Z",
     createdAt |-> "2024-01-02T00:00:00Z", id |-> "gid://2",
     app |-> [id |-> "1", name |-> "A"], shop |-> [id |-> "4", name |-> "T"],
     appCredit |-> [id |-> "5", name |-> "k", test |-> TRUE]]

\* A node that lacks shop (and a transaction's createdAt).
NodeNoShop ==
    [type |-> "RELATIONSHIP_INSTALLED", occurredAt |-> "2024-01-03T00:00:00Z",
     id |-> "gid://3", app |-> [id |-> "1", name |-> "A"]]

Nodes == {NodeCharge, NodeAppCredit, NodeNoShop}

\* The edges the server draws pages from: the complete node under either
\* cursor, and each incomplete node under one.
Edges ==
    {[cursor |-> c, node |-> NodeCharge] : c \in Cursors}
    \cup {[cursor |-> "c1", node |-> NodeAppCredit],
          [cursor |-> "c2", node |-> NodeNoShop]}

EdgeLists == UNION {[1..n -> Edges] : n \in 0..MaxEdges}

\* A connection object: pageInfo and edges, or edges alone.
Connections ==
    {[pageInfo |-> [hasNextPage |-> h, hasPreviousPage |-> FALSE], edges |-> es] :
        h \in BOOLEAN, es \in EdgeLists}
    \cup {[edges |-> es] : es \in EdgeLists}

EventsBody(conn) == [data |-> [app |-> [events |-> conn]]]
TransactionsBody(conn) == [data |-> [transactions |-> conn]]

\* Decoded bodies a stream of class `base` may be sent: any connection under
\* the path family its query asks for, the other family's connection instead,
\* or a GraphQL error document with no data.
OtherBody(base) ==
    LET conn == [pageInfo |-> [hasNextPage |-> FALSE, hasPreviousPage |-> FALSE],
                 edges |-> <<>>]
    IN IF base = "Transactions" THEN EventsBody(conn) ELSE TransactionsBody(conn)

Bodies(base) ==
    {IF base = "Transactions" THEN TransactionsBody(c) ELSE EventsBody(c) :
        c \in Connections}
    \cup {OtherBody(base), [errors |-> "Unauthorized"]}

\* What one HTTP exchange of a stream run ends in.
Exchanges(base) ==
    {[kind |-> "network_error"], [kind |-> "http_error"]}
    \cup {[kind |-> "ok", body |-> b] : b \in Bodies(base)}

\* ----------------------------------------------------------- configuration
Configs ==
    {[api_key |-> "k1", api_version |-> "2024-01", partner_id |-> "p1",
      application_id |-> "111", num_results_per_call |-> PyNumber(1)],
     [api_key |-> "k2", api_version |-> "2023-10", partner_id |-> "p2",
      application_id |-> "222", num_results_per_call |-> PyStr(<<"2">>)]}

\* The streams whose runs are explored: one of each base class.
RunStreams ==
    {"RelationshipInstalls", "CreditApplied", "SubscriptionChargeAccepted",
     "AllTransactions"}

\* ------------------------------------------------------------------- state
VARIABLES
    stream,      \* the stream object being read (StreamInit)
    pc,          \* FETCHING, AWAITING, YIELDING, DONE, FAILED or STOPPED
    after,       \* the page token the read loop holds
    request,     \* the request in flight or last sent, NoDict before the first
    in_flight,   \* requests sent and not yet answered
    response,    \* the decoded body of the page being yielded, NoDict if none
    idx,         \* records of the current page already yielded
    error,       \* what the run raised to its caller, None if nothing
    requests,    \* every request issued, in order
    pages,       \* every decoded body received, in order
    records,     \* every record yielded to the consumer, in order
    audit,       \* TRUE: the run is recorded in the three logs above
    probe_pc,    \* check_connection: idle, called, returned or raised
    probe_source,\* which copy of source.py the probe runs
    probe_config,
    probe_request,   \* the request check_connection posted last
    probe_requests,  \* every request check_connection posted, in order
    probe_reply,
    probe_result,
    catalog_source,  \* which copy of source.py streams() is called on
    catalog_calls,   \* every call of streams(): its config and the list returned
    built,           \* the last request body a listed stream built, NoDict if none
    apis,            \* the builder objects (ShopifyPartnersAPI) in use
    builds,          \* every call of a builder method: its arguments and result
    parked,          \* the run of a second stream while it is not stepping, NoDict if none
    stream_state,    \* the state the host keeps for the stream between runs
    run_no,          \* which run of the stream this is, counted from 1
    prev_after       \* the page token the previous run held when it ended

run_vars ==
    <<stream, pc, after, request, in_flight, response, idx, error, requests, pages,
      records, audit>>
probe_vars ==
    <<probe_pc, probe_source, probe_config, probe_request, probe_requests, probe_reply,
      probe_result>>
catalog_vars == <<catalog_source, catalog_calls, built>>
builder_vars == <<apis, builds>>
sync_vars == <<stream_state, run_no, prev_after>>
vars == <<run_vars, probe_vars, catalog_vars, builder_vars, parked, sync_vars>>

Base == StreamBase[stream.name]

\* The edges a body carries under the path family of `base` (none if absent).
EdgesOf(base, body) ==
    LET edges == GetPath(body, PathTo(base, "edges"))
    IN IF edges.ok THEN edges.val ELSE <<>>

RECURSIVE AllEdges(_, _)
AllEdges(base, bodies) ==
    IF bodies = <<>> THEN <<>>
    ELSE EdgesOf(base, Head(bodies)) \o AllEdges(base, Tail(bodies))

ProbeIdle ==
    /\ probe_pc = "idle"
    /\ probe_source = None
    /\ probe_config = NoDict
    /\ probe_request = NoDict
    /\ probe_requests = <<>>
    /\ probe_reply = NoDict
    /\ probe_result = NoDict

CatalogIdle ==
    /\ catalog_source = None
    /\ catalog_calls = <<>>
    /\ built = NoDict

BuilderIdle ==
    /\ apis = <<>>
    /\ builds = <<>>

\* One stream is read at a time: no second run exists.
NoPeer == parked = NoDict

\* The first run of a stream: the host holds no state for it.
FirstRun ==
    /\ stream_state = <<>>
    /\ run_no = 1
    /\ prev_after = None

RunInit(recorded, configs) ==
    /\ stream \in {StreamInit(n, c) : n \in RunStreams, c \in configs}
    /\ pc = "FETCHING"
    /\ after = None
    /\ request = NoDict
    /\ in_flight = 0
    /\ response = NoDict
    /\ idx = 0
    /\ error = None
    /\ requests = <<>>
    /\ pages = <<>>
    /\ records = <<>>
    /\ audit = recorded

Init ==
    /\ RunInit(TRUE, Configs)
    /\ ProbeIdle /\ CatalogIdle /\ BuilderIdle /\ NoPeer /\ FirstRun

\* --------------------------------------------------------------- read loop
\* The request step as it would be in a loop that reads ahead: it also fires
\* once the consumer has stopped.
SendRequest_read_ahead ==
    /\ pc \in {"FETCHING", "STOPPED"}
    /\ audit => Len(requests) < MaxPages
    /\ request' = create_prepared_request(stream, path(stream), request_headers(stream),
                                          request_body_json(stream, after))
    /\ requests' = IF audit THEN Append(requests, request') ELSE requests
    /\ in_flight' = in_flight + 1
    /\ pc' = "AWAITING"
    /\ UNCHANGED <<stream, after, response, idx, error, pages, records, audit,
                   probe_vars, catalog_vars, builder_vars, parked, sync_vars>>

\* One page request: the body is built from the held token and POSTed.
SendRequest ==
    /\ pc = "FETCHING"
    /\ audit => Len(requests) < MaxPages
    /\ request' = create_prepared_request(stream, path(stream), request_headers(stream),
                                          request_body_json(stream, after))
    /\ requests' = IF audit THEN Append(requests, request') ELSE requests
    /\ in_flight' = in_flight + 1
    /\ pc' = "AWAITING"
    /\ UNCHANGED <<stream, after, response, idx, error, pages, records, audit,
                   probe_vars, catalog_vars, builder_vars, parked, sync_vars>>

\* The exchange ends: a transport failure propagates, a decoded body is kept.
ReceiveResponse ==
    /\ pc = "AWAITING"
    /\ in_flight' = in_flight - 1
    /\ \E x \in Exchanges(Base) :
        IF x.kind = "ok"
        THEN /\ response' = x.body
             /\ idx' = 0
             /\ pc' = "YIELDING"
             /\ pages' = IF audit THEN Append(pages, x.body) ELSE pages
             /\ Len(AllEdges(Base, pages')) <= MaxItems
             /\ error' = error
        ELSE /\ pc' = "FAILED"
             /\ error' = x.kind
             /\ UNCHANGED <<response, idx, pages>>
    /\ UNCHANGED <<stream, after, request, requests, records, audit,
                   probe_vars, catalog_vars, builder_vars, parked, sync_vars>>

\* The consumer pulls the next record of the current page.
YieldRecord ==
    /\ pc = "YIELDING"
    /\ LET gen == parse_response(Base, response)
       IN /\ idx < Len(gen)
          /\ IF gen[idx + 1].ok
             THEN /\ records' = IF audit THEN Append(records, gen[idx + 1].val) ELSE records
                  /\ idx' = idx + 1
                  /\ UNCHANGED <<pc, error>>
             ELSE /\ pc' = "FAILED"
                  /\ error' = gen[idx + 1].err
                  /\ UNCHANGED <<records, idx>>
    /\ UNCHANGED <<stream, after, request, in_flight, response, requests, pages, audit,
                   probe_vars, catalog_vars, builder_vars, parked, sync_vars>>

\* The page is exhausted: the next page token decides between another
\* request and the end of the run.
NextPage ==
    /\ pc = "YIELDING"
    /\ idx = Len(parse_response(Base, response))
    /\ LET token == next_page_token(Base, response)
       IN IF ~token.ok
          THEN pc' = "FAILED" /\ error' = token.err /\ after' = after
          ELSE IF token.val = None
          THEN pc' = "DONE" /\ error' = error /\ after' = after
          ELSE pc' = "FETCHING" /\ error' = error /\ after' = token.val
    /\ UNCHANGED <<stream, request, in_flight, response, idx, requests, pages, records,
                   audit, probe_vars, catalog_vars, builder_vars, parked, sync_vars>>

\* The consumer stops pulling after a record it was handed.
StopConsuming ==
    /\ pc = "YIELDING"
    /\ idx >= 1
    /\ pc' = "STOPPED"
    /\ UNCHANGED <<stream, after, request, in_flight, response, idx, error, requests,
                   pages, records, audit, probe_vars, catalog_vars, builder_vars, parked, sync_vars>>

Next == SendRequest \/ ReceiveResponse \/ YieldRecord \/ NextPage \/ StopConsuming

Spec == Init /\ [][Next]_vars

\* An unrecorded run (of one configuration): no log grows, so no bound stops
\* the loop.  The read loop is synchronous code: whenever a step is possible
\* one is taken.
LiveInit ==
    /\ RunInit(FALSE, {c \in Configs : c.api_key = "k1"})
    /\ ProbeIdle /\ CatalogIdle /\ BuilderIdle /\ NoPeer /\ FirstRun

FairSpec == LiveInit /\ [][Next]_vars /\ WF_vars(Next)

\* ------------------------------------------------------- connection probe
MainSource == "source_shopify_partners/source.py"
SrcSource == "src/source_shopify_partners/source.py"

\* The configurations the probe is called with.
ProbeConfigs ==
    {[api_key |-> k, api_version |-> "2024-01", partner_id |-> "p1",
      application_id |-> "111", num_results_per_call |-> n] :
        k \in {"k1", "k2"},
        n \in {PyNumber(1), PyStr(<<"2">>), PyNumber(10)}}

\* Decoded JSON objects the endpoint may answer the probe with.
ProbeBodies ==
    {[error |-> PyStr(<<"invalid token">>)],
     [error |-> PyStr(<<>>)],
     [error |-> PyNone],
     [error |-> PyNumber(401)],
     [errors |-> PyStr(<<"Unauthorized">>)],
     EventsBody([pageInfo |-> [hasNextPage |-> FALSE, hasPreviousPage |-> FALSE],
                 edges |-> <<>>]),
     EventsBody([pageInfo |-> [hasNextPage |-> TRUE, hasPreviousPage |-> FALSE],
                 edges |-> <<[cursor |-> "c1", node |-> NodeCharge]>>])}

\* What requests.post and response.json() end in: an exception of the
\* requests library, or a response whose body decodes to a JSON object.
ProbeReplies ==
    {[kind |-> "exception", e |-> PyStr(<<x>>)] : x \in {"ConnectionError", "Timeout"}}
    \cup {[kind |-> "response", status |-> st, results |-> b] :
            st \in {200, 401}, b \in ProbeBodies}

\* What check_connection does not handle: the body decodes to JSON that is
\* not an object, so results.keys() raises AttributeError; or response.json()
\* raises an error that is no exception of the requests library (the plain
\* ValueError of older versions; where it is a RequestException it falls
\* under the kind "exception").
ProbeUnhandled ==
    {[kind |-> "raised", e |-> x] : x \in {"AttributeError", "ValueError"}}

\* The request check_connection posts.
probe_request_of(source, config) ==
    LET api_key == config.api_key
        api_version == config.api_version
        partner_id == config.partner_id
        application_id == <<"gid://partners/App/", config.application_id>>
        api == ShopifyPartnersAPI(api_key, partner_id, api_version)
        first == IF source = MainSource THEN PyInt(config.num_results_per_call) ELSE 1
    IN [method |-> "POST",
        url |-> <<"https://partners.shopify.com/", partner_id, "/api/", api_version,
                  "/graphql.json">>,
        headers |-> [XShopifyAccessToken |-> api_key, ContentType |-> "application/json"],
        json |-> ApiCall(api, "get_events_installs", application_id, first, None)]

\* check_connection as it would be if it tested the GraphQL "errors" key.
check_connection_plural(source, config, reply) ==
    IF reply.kind = "exception"
    THEN <<FALSE, PyStr(<<"Unable to connect to the shopify partners api :: ">>
                        \o PyFormat(reply.e))>>
    ELSE IF "errors" \in DOMAIN reply.results
    THEN <<FALSE, PyStr(PyFormat(reply.results.errors))>>
    ELSE <<TRUE, PyNone>>

\* check_connection as the connector template's stub has it: a failure is
\* returned as the one-element tuple (False,).
check_connection_one_tuple(source, config, reply) ==
    IF reply.kind = "exception" THEN <<FALSE>>
    ELSE IF "error" \in DOMAIN reply.results THEN <<FALSE>>
    ELSE <<TRUE, PyNone>>

\* check_connection as it would be if it returned the value of the "error"
\* key as it is, without formatting it.
check_connection_raw_reason(source, config, reply) ==
    IF reply.kind = "exception"
    THEN <<FALSE, PyStr(<<"Unable to connect to the shopify partners api :: ">>
                        \o PyFormat(reply.e))>>
    ELSE IF "error" \in DOMAIN reply.results
    THEN <<FALSE, reply.results.error>>
    ELSE <<TRUE, PyNone>>

\* SourceShopifyPartners.check_connection(logger, config), given what the
\* request ends in: the tuple it returns.
check_connection(source, config, reply) ==
    IF reply.kind = "exception"
    THEN <<FALSE, PyStr(<<"Unable to connect to the shopify partners api :: ">>
                        \o PyFormat(reply.e))>>
    ELSE IF "error" \in DOMAIN reply.results
    THEN <<FALSE, PyStr(PyFormat(reply.results.error))>>
    ELSE <<TRUE, PyNone>>

\* No stream is being read while the probe runs.
RunIdle ==
    /\ stream = NoDict
    /\ pc = "IDLE"
    /\ after = None
    /\ request = NoDict
    /\ in_flight = 0
    /\ response = NoDict
    /\ idx = 0
    /\ error = None
    /\ requests = <<>>
    /\ pages = <<>>
    /\ records = <<>>
    /\ audit = TRUE

ProbeInit ==
    /\ RunIdle
    /\ CatalogIdle
    /\ BuilderIdle
    /\ NoPeer
    /\ FirstRun
    /\ probe_pc = "idle"
    /\ probe_source \in {MainSource, SrcSource}
    /\ probe_config \in ProbeConfigs
    /\ probe_request = NoDict
    /\ probe_requests = <<>>
    /\ probe_reply = NoDict
    /\ probe_result = NoDict

\* The probe's first step as it would be if it normalised the page size in
\* the mapping it was handed (config["num_results_per_call"] = int(...)).
CheckConnectionCall_normalising ==
    /\ probe_pc = "idle"
    /\ probe_config' = [probe_config EXCEPT !.num_results_per_call =
                                                PyNumber(PyInt(probe_config.num_results_per_call))]
    /\ probe_request' = probe_request_of(probe_source, probe_config')
    /\ probe_requests' = Append(probe_requests, probe_request')
    /\ probe_pc' = "called"
    /\ UNCHANGED <<run_vars, catalog_vars, builder_vars, parked, sync_vars,
                   probe_source, probe_reply, probe_result>>

\* check_connection builds its request and posts it.
CheckConnectionCall ==
    /\ probe_pc = "idle"
    /\ probe_request' = probe_request_of(probe_source, probe_config)
    /\ probe_requests' = Append(probe_requests, probe_request')
    /\ probe_pc' = "called"
    /\ UNCHANGED <<run_vars, catalog_vars, builder_vars, parked, sync_vars,
                   probe_source, probe_config, probe_reply, probe_result>>

\* The end of the request as it would be in a probe that pages: a decoded
\* body that reports another page makes it post a second request, with the
\* cursor of the last edge as `after`.
CheckConnectionReturn_paginating ==
    /\ probe_pc = "called"
    /\ \E reply \in ProbeReplies \cup ProbeUnhandled :
        LET token == IF reply.kind = "response"
                     THEN next_page_token("Relationship", reply.results)
                     ELSE KeyError
        IN /\ probe_reply' = reply
           /\ IF token.ok /\ token.val # None /\ Len(probe_requests) < 2
              THEN /\ probe_request' =
                          [probe_request EXCEPT !.json.variables.after = token.val]
                   /\ probe_requests' = Append(probe_requests, probe_request')
                   /\ UNCHANGED <<probe_pc, probe_result>>
              ELSE /\ IF reply.kind = "raised"
                      THEN /\ probe_result' = [raised |-> reply.e]
                           /\ probe_pc' = "raised"
                      ELSE /\ probe_result' =
                                  [value |-> check_connection(probe_source, probe_config,
                                                              reply)]
                           /\ probe_pc' = "returned"
                   /\ UNCHANGED <<probe_request, probe_requests>>
    /\ UNCHANGED <<run_vars, catalog_vars, builder_vars, parked, sync_vars, probe_source, probe_config>>

\* The request ends and check_connection returns, or an error it does not
\* catch leaves it.
CheckConnectionReturn ==
    /\ probe_pc = "called"
    /\ \E reply \in ProbeReplies \cup ProbeUnhandled :
        /\ probe_reply' = reply
        /\ IF reply.kind = "raised"
           THEN /\ probe_result' = [raised |-> reply.e]
                /\ probe_pc' = "raised"
           ELSE /\ probe_result' =
                       [value |-> check_connection(probe_source, probe_config, reply)]
                /\ probe_pc' = "returned"
    /\ UNCHANGED <<run_vars, catalog_vars, builder_vars, parked, sync_vars,
                   probe_source, probe_config, probe_request, probe_requests>>

ProbeNext == CheckConnectionCall \/ CheckConnectionReturn

ProbeSpec == ProbeInit /\ [][ProbeNext]_vars

\* ---------------------------------------------------------- stream catalog
\* The classes streams() instantiates, in the order of its list literal.
MainCatalog ==
    <<"RelationshipInstalls", "RelationshipUninstalls", "RelationshipReactivated",
      "RelationshipDeactivated", "SubscriptionCappedAmountUpdated",
      "SubscriptionApproachingCappedAmount", "SubscriptionChargeAccepted",
      "SubscriptionChargeActivated", "SubscriptionChargeCanceled",
      "SubscriptionChargeDeclined", "SubscriptionChargeExpired",
      "SubscriptionChargeFrozen", "SubscriptionChargeUnfrozen", "UsageChargeApplied",
      "CreditApplied", "CreditPending", "CreditFailed", "OneTimeChargeAccepted",
      "OneTimeChargeActivated", "OneTimeChargeDeclined", "OneTimeChargeExpired",
      "AllTransactions">>

\* The same for the older copy under src/.
SrcCatalog ==
    <<"RelationshipInstalls", "RelationshipUninstalls", "RelationshipReactivated",
      "RelationshipDeactivated", "SubscriptionChargeAccepted">>

\* The builder method each stream class of the older copy calls.
SrcStreamMethod ==
    [RelationshipInstalls |-> "get_events_installs",
     RelationshipUninstalls |-> "get_events_uninstalls",
     RelationshipReactivated |-> "get_events_reactivations",
     RelationshipDeactivated |-> "get_events_deactivations",
     SubscriptionChargeAccepted |-> "get_events_subscription_charge_activated"]

\* <Stream>.request_body_json of the older copy.
src_request_body_json(self, page_token) ==
    LET api == ShopifyPartnersAPI(self.api_key, self.api_version, "2024-01")
    IN ApiCall(api, SrcStreamMethod[self.name], self.application_id,
               PyInt(self.config.num_results_per_call), page_token)

\* streams() as the connector template's test counts it: five streams.
streams_first_five(source, config) ==
    [i \in 1..5 |-> StreamInit(MainCatalog[i], config)]

\* streams() as it would be if the catalog followed the configuration: the
\* list is reversed for one API version.
streams_by_config(source, config) ==
    LET names == IF source = MainSource THEN MainCatalog ELSE SrcCatalog
    IN [i \in 1..Len(names) |->
           StreamInit(IF config.api_version = "2024-01" THEN names[i]
                      ELSE names[Len(names) + 1 - i], config)]

\* SourceShopifyPartners.streams(config): one object per listed class, each
\* constructed from config.
streams(source, config) ==
    LET names == IF source = MainSource THEN MainCatalog ELSE SrcCatalog
    IN [i \in 1..Len(names) |-> StreamInit(names[i], config)]

\* The body a listed stream builds for a page token.
BodyOf(source, self, page_token) ==
    IF source = MainSource THEN request_body_json(self, page_token)
    ELSE src_request_body_json(self, page_token)

CatalogInit ==
    /\ RunIdle
    /\ ProbeIdle
    /\ BuilderIdle
    /\ NoPeer
    /\ FirstRun
    /\ catalog_source \in {MainSource, SrcSource}
    /\ catalog_calls = <<>>
    /\ built = NoDict

\* The host calls streams(config).
ListStreams ==
    /\ Len(catalog_calls) < MaxCalls
    /\ \E config \in Configs :
        catalog_calls' = Append(catalog_calls,
                                [config |-> config,
                                 streams |-> streams(catalog_source, config)])
    /\ UNCHANGED <<run_vars, probe_vars, builder_vars, parked, sync_vars, catalog_source, built>>

\* A stream of a returned list builds the body of a request.
BuildRequestBody ==
    /\ \E i \in 1..Len(catalog_calls) :
       \E k \in 1..Len(catalog_calls[i].streams) :
       \E token \in {None} \cup Cursors :
          built' = [stream |-> catalog_calls[i].streams[k],
                    page_token |-> token,
                    json |-> BodyOf(catalog_source, catalog_calls[i].streams[k], token)]
    /\ UNCHANGED <<run_vars, probe_vars, builder_vars, parked, sync_vars, catalog_source, catalog_calls>>

CatalogNext == ListStreams \/ BuildRequestBody

CatalogSpec == CatalogInit /\ [][CatalogNext]_vars

\* ------------------------------------------------------ builder in isolation
\* Builder objects as the code constructs them: the probe passes key, partner
\* id and version; a stream passes its key and, as the organization id, its
\* API version, leaving the version to its default.
BuilderInstances ==
    {ShopifyPartnersAPI("k1", "p1", "2023-10"),
     ShopifyPartnersAPI("k2", "2023-10", "2024-01")}

\* The builder methods called: one events method per response shape, and the
\* transactions method.
BuilderMethods ==
    {"get_events_installs", "get_events_credit_applied", "get_all_transactions"}

BuilderInit ==
    /\ RunIdle
    /\ ProbeIdle
    /\ CatalogIdle
    /\ NoPeer
    /\ FirstRun
    /\ apis \in {<<a, b>> : a \in BuilderInstances, b \in BuilderInstances}
    /\ builds = <<>>

\* One call api.<method>(app_id, first, after) on one of the objects: it
\* returns the document and the variables, and assigns no attribute.
Build ==
    /\ Len(builds) < MaxBuilds
    /\ \E i \in 1..Len(apis) :
       \E method \in BuilderMethods :
       \E first \in {1, 10} :
       \E token \in {None, "c1"} :
          LET app_id == <<"gid://partners/App/", "111">>
          IN builds' = Append(builds,
                              [api |-> i,
                               method |-> method,
                               args |-> <<app_id, first, token>>,
                               result |-> ApiCall(apis[i], method, app_id, first, token)])
    /\ UNCHANGED <<run_vars, probe_vars, catalog_vars, apis, parked, sync_vars>>

BuilderNext == Build

BuilderSpec == BuilderInit /\ [][BuilderNext]_vars

\* ------------------------------------------------- the builder's duplicate
\* Most calls made on the pair of builder copies.
MaxTwinBuilds == 1

\* An object of each copy, constructed with the same arguments.
TwinInit ==
    /\ RunIdle
    /\ ProbeIdle
    /\ CatalogIdle
    /\ NoPeer
    /\ FirstRun
    /\ apis \in {<<a, a>> : a \in BuilderInstances}
    /\ builds = <<>>

\* The same call on both copies: source.py's object and partners_api.py's.
BuildBoth ==
    /\ Len(builds) < MaxTwinBuilds
    /\ \E method \in DOMAIN PartnersEventTypes :
       \E first \in {1, 10} :
       \E token \in {None, "c1"} :
          LET app_id == <<"gid://partners/App/", "111">>
          IN builds' = Append(builds,
                              [method |-> method,
                               args |-> <<app_id, first, token>>,
                               result |-> ApiCall(apis[1], method, app_id, first, token),
                               twin |-> PartnersApiCall(apis[2], method, app_id, first,
                                                        token)])
    /\ UNCHANGED <<run_vars, probe_vars, catalog_vars, apis, parked, sync_vars>>

TwinNext == BuildBoth

TwinSpec == TwinInit /\ [][TwinNext]_vars

\* ------------------------------------------------------- two streams at once
\* Most requests of one run, and most edges the server holds for it, when two
\* runs are interleaved.
MaxPeerPages == 2
MaxPeerItems == 1

\* The run being stepped, as one value.
ActiveRun ==
    [stream |-> stream, pc |-> pc, after |-> after, request |-> request,
     in_flight |-> in_flight, response |-> response, idx |-> idx, error |-> error,
     requests |-> requests, pages |-> pages, records |-> records]

\* A run of stream `self` that has not started.
FreshRun(self) ==
    [stream |-> self, pc |-> "FETCHING", after |-> None, request |-> NoDict,
     in_flight |-> 0, response |-> NoDict, idx |-> 0, error |-> None,
     requests |-> <<>>, pages |-> <<>>, records |-> <<>>]

\* The first configuration of Configs.
FirstConfig == CHOOSE c \in Configs : c.api_key = "k1"

\* Two stream objects of one streams() call are read at once: installs, and
\* either a credit stream (the same path family) or the transactions stream.
PeerInit ==
    /\ RunInit(TRUE, {FirstConfig})
    /\ stream.name = "RelationshipInstalls"
    /\ parked \in {FreshRun(StreamInit(n, FirstConfig)) :
                      n \in {"CreditApplied", "AllTransactions"}}
    /\ ProbeIdle
    /\ CatalogIdle
    /\ BuilderIdle
    /\ FirstRun

\* The switch as it would be if the page token were kept in one place for
\* all streams: the run that resumes finds the token the other one left.
Switch_shared_cursor ==
    /\ parked # NoDict
    /\ parked' = ActiveRun
    /\ stream' = parked.stream
    /\ pc' = parked.pc
    /\ after' = after
    /\ request' = parked.request
    /\ in_flight' = parked.in_flight
    /\ response' = parked.response
    /\ idx' = parked.idx
    /\ error' = parked.error
    /\ requests' = parked.requests
    /\ pages' = parked.pages
    /\ records' = parked.records
    /\ UNCHANGED <<audit, probe_vars, catalog_vars, builder_vars, sync_vars>>

\* The host turns from one run to the other: each run keeps what it holds,
\* all of it being attributes and locals of its own stream object.
Switch ==
    /\ parked # NoDict
    /\ parked' = ActiveRun
    /\ stream' = parked.stream
    /\ pc' = parked.pc
    /\ after' = parked.after
    /\ request' = parked.request
    /\ in_flight' = parked.in_flight
    /\ response' = parked.response
    /\ idx' = parked.idx
    /\ error' = parked.error
    /\ requests' = parked.requests
    /\ pages' = parked.pages
    /\ records' = parked.records
    /\ UNCHANGED <<audit, probe_vars, catalog_vars, builder_vars, sync_vars>>

\* The edges the server holds when two runs are interleaved: a complete node,
\* and a credit node that a credit stream cannot map.
PeerEdges ==
    {e \in Edges : e.node = NodeAppCredit \/ (e.node = NodeCharge /\ e.cursor = "c2")}

\* The decoded bodies it then sends a stream of class `base`.
PeerBodies(base) ==
    {IF base = "Transactions" THEN TransactionsBody(c) ELSE EventsBody(c) :
        c \in {conn \in Connections :
                  /\ "pageInfo" \in DOMAIN conn
                  /\ \A i \in 1..Len(conn.edges) : conn.edges[i] \in PeerEdges}}
    \cup {OtherBody(base), [errors |-> "Unauthorized"]}

\* What bounds a run when two are interleaved.
PeerBound ==
    /\ Len(requests) <= MaxPeerPages
    /\ Len(AllEdges(Base, pages)) <= MaxPeerItems
    /\ response = NoDict \/ response \in PeerBodies(Base)

PeerNext == (Next \/ Switch) /\ PeerBound'

PeerSpec == PeerInit /\ [][PeerNext]_vars

\* ------------------------------------------------- one run after another
\* The states the host may hand a stream when a run begins: a Python dict,
\* here a sequence of (key, value) pairs.
SavedStates == {<<>>, <<<<"after", "c1">>>>}

\* get_updated_state as it would be if the scaffold passed the state on.
get_updated_state_kept(current_stream_state, latest_record) == current_stream_state

\* IncrementalShopifyPartnersStream.get_updated_state: the empty dict,
\* whatever the current state and the latest record are.
get_updated_state(current_stream_state, latest_record) == <<>>

\* The state after the host has applied get_updated_state to every record of
\* a run, in the order they were yielded.
RECURSIVE StateAfter(_, _)
StateAfter(state, recs) ==
    IF recs = <<>> THEN state
    ELSE StateAfter(get_updated_state(state, Head(recs)), Tail(recs))

\* A stream is read again and again, beginning with any saved state.
ResyncInit ==
    /\ RunInit(TRUE, {FirstConfig})
    /\ stream.name = "CreditApplied"
    /\ stream_state \in SavedStates
    /\ run_no = 1
    /\ prev_after = None
    /\ ProbeIdle
    /\ CatalogIdle
    /\ BuilderIdle
    /\ NoPeer

\* A run has ended and the host starts the next one: the state it keeps is
\* what get_updated_state gave for the records of the run, and the new run
\* holds nothing of the old one.
Restart ==
    /\ pc \in {"DONE", "FAILED", "STOPPED"}
    /\ run_no < MaxRuns
    /\ stream_state' = StateAfter(stream_state, records)
    /\ prev_after' = after
    /\ run_no' = run_no + 1
    /\ pc' = "FETCHING"
    /\ after' = None
    /\ request' = NoDict
    /\ in_flight' = 0
    /\ response' = NoDict
    /\ idx' = 0
    /\ error' = None
    /\ requests' = <<>>
    /\ pages' = <<>>
    /\ records' = <<>>
    /\ UNCHANGED <<stream, audit, probe_vars, catalog_vars, builder_vars, parked>>

ResyncNext == Next \/ Restart

ResyncSpec == ResyncInit /\ [][ResyncNext]_vars

\* ------------------------------------------------------- the life of a sync
\* One configuration serves a whole sync: the host probes the connection
\* with it, lists the streams with it and reads one of the listed streams.
LifeInit ==
    /\ RunIdle
    /\ probe_pc = "idle"
    /\ probe_source = MainSource
    /\ probe_config \in Configs
    /\ probe_request = NoDict
    /\ probe_requests = <<>>
    /\ probe_reply = NoDict
    /\ probe_result = NoDict
    /\ catalog_source = MainSource
    /\ catalog_calls = <<>>
    /\ built = NoDict
    /\ BuilderIdle
    /\ NoPeer
    /\ FirstRun

\* After the probe the host calls streams(config) with the same mapping.
Discover ==
    /\ probe_pc = "returned"
    /\ catalog_calls = <<>>
    /\ catalog_calls' = <<[config |-> probe_config,
                           streams |-> streams(catalog_source, probe_config)]>>
    /\ UNCHANGED <<run_vars, probe_vars, builder_vars, parked, sync_vars,
                   catalog_source, built>>

\* The host begins to read one of the listed streams.
StartRead ==
    /\ catalog_calls # <<>>
    /\ pc = "IDLE"
    /\ \E k \in 1..Len(catalog_calls[1].streams) :
        /\ catalog_calls[1].streams[k].name \in RunStreams
        /\ stream' = catalog_calls[1].streams[k]
    /\ pc' = "FETCHING"
    /\ UNCHANGED <<after, request, in_flight, response, idx, error, requests, pages,
                   records, audit, probe_vars, catalog_vars, builder_vars, parked,
                   sync_vars>>

\* What bounds the read of a sync's life.
LifeBound ==
    pc # "IDLE" =>
        /\ Len(requests) <= MaxPeerPages
        /\ Len(AllEdges(Base, pages)) <= MaxPeerItems
        /\ response = NoDict \/ response \in PeerBodies(Base)

LifeNext == (ProbeNext \/ Discover \/ StartRead \/ Next) /\ LifeBound'

LifeSpec == LifeInit /\ [][LifeNext]_vars

\* ------------------------------------------------------------------ claims
\* What the page `body` reports as pageInfo.hasNextPage under the path family
\* of `base`: Ok(TRUE), Ok(FALSE) or KeyError.
HasNextPage(base, body) ==
    GetPath(body, PathTo(base, "pageInfo") \o <<"hasNextPage">>)

\* The cursor of the last edge of a page that has edges.
LastCursor(base, body) ==
    EdgesOf(base, body)[Len(EdgesOf(base, body))].cursor

\* The positions of the pages received that report hasNextPage false.
FalsePages == {i \in 1..Len(pages) : HasNextPage(Base, pages[i]) = Ok(FALSE)}

\* C1: a page is terminal iff it reports hasNextPage false.  Request N+1 is
\* issued only after page N reported true; the loop goes back to FETCHING
\* only from such a page; a run that is DONE has issued as many requests as
\* the index of the first page reporting false; and nothing is requested
\* once DONE is reached.
C1_TerminalIffNoNextPage ==
    /\ [](/\ Len(requests) <= Len(pages) + 1
          /\ \A i \in 2..Len(requests) : HasNextPage(Base, pages[i - 1]) = Ok(TRUE)
          /\ (pc = "FETCHING" /\ pages # <<>>) =>
                 HasNextPage(Base, pages[Len(pages)]) = Ok(TRUE)
          /\ pc = "DONE" =>
                 /\ FalsePages # {}
                 /\ \A i \in FalsePages : Len(requests) <= i
                 /\ Len(requests) \in FalsePages)
    /\ [][pc = "DONE" => (pc' = "DONE" /\ requests' = requests)]_vars

\* A run that ended after two requests, the first page having reported true.
C1_Witness ==
    /\ pc = "DONE"
    /\ Len(requests) = 2
    /\ HasNextPage(Base, pages[1]) = Ok(TRUE)
    /\ HasNextPage(Base, pages[2]) = Ok(FALSE)

\* C2: the first request carries after = None and request N+1 carries the
\* cursor of the last edge of page N.
C2_AfterIsLastCursor ==
    \A i \in 1..Len(requests) :
        requests[i].json.variables.after =
            IF i = 1 THEN None ELSE LastCursor(Base, pages[i - 1])

\* The fixture of the spec: page 1 has two edges (the last with cursor c1,
\* the first with another cursor) and reports true, page 2 has one edge and
\* reports false; two requests were issued, the second with after = c1.
C2_Witness ==
    /\ pc = "DONE"
    /\ Len(pages) = 2
    /\ Len(requests) = 2
    /\ Len(EdgesOf(Base, pages[1])) = 2
    /\ Len(EdgesOf(Base, pages[2])) = 1
    /\ EdgesOf(Base, pages[1])[1].cursor = "c2"
    /\ EdgesOf(Base, pages[1])[2].cursor = "c1"
    /\ requests[1].json.variables.after = None
    /\ requests[2].json.variables.after = "c1"

\* The edges of the pages received before the current one.
EarlierEdges ==
    IF pages = <<>> THEN <<>> ELSE AllEdges(Base, SubSeq(pages, 1, Len(pages) - 1))

\* C3: the records yielded are the edges received, mapped one by one in the
\* order received: record i comes from edge i of the concatenated pages, the
\* records of the current page are its first idx edges, and between pages and
\* at DONE every edge received has been yielded exactly once.
C3_RecordsFollowEdges ==
    LET all == AllEdges(Base, pages)
    IN /\ Len(records) <= Len(all)
       /\ \A i \in 1..Len(records) : MapEdge(Base, all[i]) = Ok(records[i])
       /\ pc = "YIELDING" => Len(records) = Len(EarlierEdges) + idx
       /\ pc \in {"FETCHING", "AWAITING", "DONE"} => Len(records) = Len(all)

\* A finished run of two pages that yielded three records, the first and the
\* third from the same edge sent twice, the second from a different node.
C3_Witness ==
    /\ pc = "DONE"
    /\ Len(pages) = 2
    /\ Len(records) = 3
    /\ Len(EdgesOf(Base, pages[1])) = 2
    /\ AllEdges(Base, pages)[1] = AllEdges(Base, pages)[3]
    /\ records[1] = records[3]
    /\ records[1] # records[2]

Terminated == pc \in {"DONE", "FAILED", "STOPPED"}

\* The page being yielded reports another page.
MorePagesReported == pc = "YIELDING" /\ HasNextPage(Base, response) = Ok(TRUE)

\* C4 as claimed: whatever the server answers, a run eventually ends (DONE,
\* a failure, or the consumer stopping).
C4_AlwaysTerminates == <>Terminated

\* C4 as amended: a run ends unless the server goes on reporting hasNextPage
\* true for ever; if from some point on no page reports another page, the
\* run ends.
C4_TerminatesUnlessMorePagesForever == (<>[]~MorePagesReported) => <>Terminated

\* An unrecorded run that went past its first page and ended in DONE.
C4_Witness == ~audit /\ pc = "DONE" /\ after # None

\* The body is an empty page that reports hasNextPage false.
EmptyLastPage(base, body) ==
    /\ GetPath(body, PathTo(base, "edges")) = Ok(<<>>)
    /\ HasNextPage(base, body) = Ok(FALSE)

\* C5: from an empty page that reports hasNextPage false the only step is to
\* DONE: no record is yielded, nothing is raised, no request is issued.
C5_EmptyLastPageEndsCleanly ==
    [][(pc = "YIELDING" /\ EmptyLastPage(Base, response)) =>
           /\ pc' = "DONE"
           /\ error' = None
           /\ records' = records
           /\ requests' = requests
           /\ in_flight' = 0]_vars

\* A run that is DONE on an empty last page, after a first page with records.
C5_Witness ==
    /\ pc = "DONE"
    /\ EmptyLastPage(Base, response)
    /\ error = None
    /\ Len(pages) = 2
    /\ records # <<>>

\* C6: at most one request is in flight, and only while the loop awaits its
\* answer; requests and answers alternate; and while request N+1 is in flight
\* every edge of pages 1..N has been yielded.
C6_PagesStrictlySequential ==
    /\ in_flight \in {0, 1}
    /\ in_flight = 1 <=> pc = "AWAITING"
    /\ Len(requests) =
           Len(pages) + (IF error \in {"network_error", "http_error"} THEN 1 ELSE in_flight)
    /\ pc = "AWAITING" => Len(records) = Len(AllEdges(Base, pages))

\* The second request is in flight and the first page's two records are out.
C6_Witness ==
    /\ pc = "AWAITING"
    /\ Len(requests) = 2
    /\ Len(records) = 2

\* C7: a failed run takes no further step (no retry, no later request); the
\* step that fails leaves the yielded records and the requests as they are
\* and raises an error; a transport failure is raised by the request it
\* struck, which stays the last one; and an exhausted page whose pagination
\* path is missing fails the run (unless the consumer stops first).
C7_FailurePropagates ==
    /\ [][/\ pc = "FAILED" => UNCHANGED run_vars
          /\ (pc # "FAILED" /\ pc' = "FAILED") =>
                 /\ records' = records
                 /\ requests' = requests
                 /\ error' # None
          /\ (/\ pc = "YIELDING"
              /\ GetPath(response, PathTo(Base, "edges")).ok
              /\ idx = Len(EdgesOf(Base, response))
              /\ HasNextPage(Base, response) = KeyError) =>
                 /\ pc' \in {"FAILED", "STOPPED"}
                 /\ pc' = "FAILED" => error' = "KeyError"]_vars
    /\ [](error \in {"network_error", "http_error"} =>
              /\ pc = "FAILED"
              /\ in_flight = 0
              /\ Len(requests) = Len(pages) + 1)

\* The second request failed in transport after the first page's records
\* were yielded: they are still there.
C7_Witness ==
    /\ pc = "FAILED"
    /\ error = "http_error"
    /\ Len(requests) = 2
    /\ Len(records) = 2

\* C8: the consumer can stop after any record it was handed; stopping
\* changes nothing but the run's position (no cleanup); and a stopped run
\* takes no further step, so the request for the next page is never sent.
C8_CancellationSendsNothing ==
    /\ [][/\ pc = "STOPPED" => UNCHANGED run_vars
          /\ (pc # "STOPPED" /\ pc' = "STOPPED") =>
                 /\ pc = "YIELDING"
                 /\ idx >= 1
                 /\ UNCHANGED <<stream, after, request, in_flight, response, idx, error,
                                requests, pages, records>>]_vars
    /\ []((pc = "YIELDING" /\ idx >= 1) => ENABLED StopConsuming)
    /\ [](pc = "STOPPED" => (in_flight = 0 /\ Len(requests) = Len(pages)))

\* The consumer stopped after the first of two records of a page that
\* reports another page.
C8_Witness ==
    /\ pc = "STOPPED"
    /\ idx = 1
    /\ Len(EdgesOf(Base, response)) = 2
    /\ HasNextPage(Base, response) = Ok(TRUE)
    /\ Len(requests) = 1

\* A node lacks a key the mapping of `base` subscripts: shop for an event
\* stream, charge for a credit or cost stream, createdAt for transactions.
LacksReferencedKey(base, node) ==
    \/ base # "Transactions" /\ "shop" \notin DOMAIN node
    \/ base \in {"Credit", "SubscriptionWithCost"} /\ "charge" \notin DOMAIN node
    \/ base = "Transactions" /\ "createdAt" \notin DOMAIN node

\* C9: a body without the stream's edges path fails the run with a lookup
\* error at the first pull; an edge whose node lacks a referenced key fails
\* it when that edge is pulled (unless the consumer stops first), with no
\* record for it; and a failed run takes no further step.
C9_LookupFailureUnrecovered ==
    [][/\ (pc = "YIELDING" /\ ~GetPath(response, PathTo(Base, "edges")).ok) =>
              /\ pc' = "FAILED"
              /\ error' = "KeyError"
              /\ records' = records
              /\ requests' = requests
       /\ (/\ pc = "YIELDING"
           /\ idx < Len(EdgesOf(Base, response))
           /\ LacksReferencedKey(Base, EdgesOf(Base, response)[idx + 1].node)) =>
              /\ pc' \in {"FAILED", "STOPPED"}
              /\ records' = records
              /\ pc' = "FAILED" => error' = "KeyError"
       /\ pc = "FAILED" => UNCHANGED run_vars]_vars

\* A credit stream failed on the second edge of a page, whose node has
\* appCredit and no charge, after yielding the first.
C9_Witness ==
    /\ pc = "FAILED"
    /\ error = "KeyError"
    /\ Base = "Credit"
    /\ idx = 1
    /\ Len(records) = 1
    /\ Len(EdgesOf(Base, response)) = 2
    /\ EdgesOf(Base, response)[2].node = NodeAppCredit

\* The probe returned after a response whose body decoded to a JSON object.
ProbeDecoded == probe_pc = "returned" /\ probe_reply.kind = "response"

\* C10: for a decoded body the probe reports failure exactly when the body
\* has a top-level "error" key; the reason is then a string that holds the
\* formatted value of that key (the value itself when it is a string); and
\* without the key the result is (True, None).
C10_ProbeFailsIffErrorKey ==
    ProbeDecoded =>
        LET results == probe_reply.results
            result == probe_result.value
        IN /\ result[1] = FALSE <=> "error" \in DOMAIN results
           /\ "error" \in DOMAIN results =>
                  /\ result[2] = PyStr(PyFormat(results.error))
                  /\ "str" \in DOMAIN results.error => result[2].str = results.error.str
           /\ "error" \notin DOMAIN results => result = <<TRUE, PyNone>>

\* The scenario of the spec: the body {"error": "invalid token"} made the
\* probe return failure with the reason "invalid token".
C10_Witness ==
    /\ ProbeDecoded
    /\ probe_reply.results = [error |-> PyStr(<<"invalid token">>)]
    /\ probe_result.value = <<FALSE, PyStr(<<"invalid token">>)>>

\* The request of the probe ended in a transport failure: the requests
\* library raised, or the response carries an HTTP error status.
ProbeTransportFailure ==
    /\ probe_pc = "returned"
    /\ \/ probe_reply.kind = "exception"
       \/ probe_reply.kind = "response" /\ probe_reply.status >= 400

\* C11: every transport failure of the probe, a network error or an HTTP
\* error status, is returned as (False, reason) with a non-empty string as
\* the reason; it is never reported as success.
C11_TransportFailureReported ==
    ProbeTransportFailure =>
        /\ probe_result.value[1] = FALSE
        /\ "str" \in DOMAIN probe_result.value[2]
        /\ probe_result.value[2].str # <<>>

\* The probe returned and no successful connection resulted: the request
\* raised, or the decoded body has a top-level "error" key.
ProbeUnsuccessful ==
    /\ probe_pc = "returned"
    /\ \/ probe_reply.kind = "exception"
       \/ probe_reply.kind = "response" /\ "error" \in DOMAIN probe_reply.results

RequestedTypes(query) ==
    IF \E i \in 1..Len(query) : query[i] = "["
    THEN LET open == CHOOSE i \in 1..Len(query) : query[i] = "["
             close == CHOOSE j \in 1..Len(query) : query[j] = "]"
         IN SelectSeq(SubSeq(query, open + 1, close - 1), LAMBDA piece : piece # ", ")
    ELSE <<>>

\* C13: one check posts exactly one request, an events query for
\* RELATIONSHIP_INSTALLED with after = None; and once the probe has returned
\* nothing more is sent, whatever the response reported.
C13_ProbeSendsOneRequest ==
    /\ [](/\ Len(probe_requests) <= 1
          /\ probe_pc = "idle" => probe_requests = <<>>
          /\ probe_pc \in {"called", "returned"} =>
                 /\ probe_requests = <<probe_request>>
                 /\ probe_request.method = "POST"
                 /\ RequestedTypes(probe_request.json.query) = <<"RELATIONSHIP_INSTALLED">>
                 /\ probe_request.json.variables.after = None)
    /\ [][probe_pc = "returned" => UNCHANGED probe_vars]_vars

\* The probe returned success on a page that reports another page, having
\* posted one request.
C13_Witness ==
    /\ probe_pc = "returned"
    /\ probe_reply.kind = "response"
    /\ HasNextPage("Relationship", probe_reply.results) = Ok(TRUE)
    /\ probe_result.value = <<TRUE, PyNone>>
    /\ Len(probe_requests) = 1

\* The class names of a list streams() returned, in order.
KindsOf(list) == [i \in 1..Len(list) |-> list[i].name]

C15_ListStreamsDeterministic ==
    \A i \in 1..Len(catalog_calls) :
        /\ Len(catalog_calls[i].streams) >= 1
        /\ \A k \in 1..Len(catalog_calls[i].streams) :
               catalog_calls[i].streams[k].config = catalog_calls[i].config
        /\ \A j \in 1..Len(catalog_calls) :
               /\ KindsOf(catalog_calls[i].streams) = KindsOf(catalog_calls[j].streams)
               /\ catalog_calls[i].config = catalog_calls[j].config =>
                      catalog_calls[i].streams = catalog_calls[j].streams

\* streams() was called three times, twice with one config and once with
\* another.
C15_Witness ==
    /\ Len(catalog_calls) = 3
    /\ catalog_calls[1].config = catalog_calls[3].config
    /\ catalog_calls[1].config # catalog_calls[2].config
    /\ catalog_calls[1].streams = catalog_calls[3].streams
    /\ catalog_calls[1].streams # catalog_calls[2].streams

\* The event type the name of a stream class denotes.
DenotedEventType ==
    [RelationshipInstalls |-> "RELATIONSHIP_INSTALLED",
     RelationshipUninstalls |-> "RELATIONSHIP_UNINSTALLED",
     RelationshipReactivated |-> "RELATIONSHIP_REACTIVATED",
     RelationshipDeactivated |-> "RELATIONSHIP_DEACTIVATED",
     SubscriptionCappedAmountUpdated |-> "SUBSCRIPTION_CAPPED_AMOUNT_UPDATED",
     SubscriptionApproachingCappedAmount |-> "SUBSCRIPTION_APPROACHING_CAPPED_AMOUNT",
     SubscriptionChargeAccepted |-> "SUBSCRIPTION_CHARGE_ACCEPTED",
     SubscriptionChargeActivated |-> "SUBSCRIPTION_CHARGE_ACTIVATED",
     SubscriptionChargeCanceled |-> "SUBSCRIPTION_CHARGE_CANCELED",
     SubscriptionChargeDeclined |-> "SUBSCRIPTION_CHARGE_DECLINED",
     SubscriptionChargeExpired |-> "SUBSCRIPTION_CHARGE_EXPIRED",
     SubscriptionChargeFrozen |-> "SUBSCRIPTION_CHARGE_FROZEN",
     SubscriptionChargeUnfrozen |-> "SUBSCRIPTION_CHARGE_UNFROZEN",
     UsageChargeApplied |-> "USAGE_CHARGE_APPLIED",
     CreditApplied |-> "CREDIT_APPLIED",
     CreditPending |-> "CREDIT_PENDING",
     CreditFailed |-> "CREDIT_FAILED",
     OneTimeChargeAccepted |-> "ONE_TIME_CHARGE_ACCEPTED",
     OneTimeChargeActivated |-> "ONE_TIME_CHARGE_ACTIVATED",
     OneTimeChargeDeclined |-> "ONE_TIME_CHARGE_DECLINED",
     OneTimeChargeExpired |-> "ONE_TIME_CHARGE_EXPIRED"]

\* The transactions document, which filters on no event type.
IsTransactionsDocument(query) ==
    query = compose_transactions_query(NoDict, None, 1, None).query

\* The body built last is the one the name of its stream denotes.
BuiltForOwnEventType ==
    built # NoDict =>
        IF built.stream.name = "AllTransactions"
        THEN IsTransactionsDocument(built.json.query)
        ELSE RequestedTypes(built.json.query) = <<DenotedEventType[built.stream.name]>>

\* C16: the body a catalog stream builds filters on the single event type
\* its name denotes (the transactions stream builds the transactions
\* document), and no two streams of one list build the same document.
C16_StreamQueriesOwnEventType ==
    /\ BuiltForOwnEventType
    /\ \A i \in 1..Len(catalog_calls) :
           LET list == catalog_calls[i].streams
           IN \A k1, k2 \in 1..Len(list) :
                  k1 # k2 => BodyOf(catalog_source, list[k1], None).query
                                 # BodyOf(catalog_source, list[k2], None).query

\* The integer value of the configured num_results_per_call.
ConfiguredPageSize(config) ==
    CASE config.num_results_per_call = PyNumber(1) -> 1
      [] config.num_results_per_call = PyStr(<<"2">>) -> 2

\* C17: every request of a run carries the document of the first one, the
\* variables appId, first and after and no other, appId being
\* "gid://partners/App/" followed by the configured application_id and first
\* the integer value of the configured num_results_per_call; only after
\* differs between the requests of a run.
C17_OnlyAfterChanges ==
    \A i \in 1..Len(requests) :
        LET json == requests[i].json
        IN /\ DOMAIN json = {"query", "variables"}
           /\ DOMAIN json.variables = {"appId", "first", "after"}
           /\ json.query = requests[1].json.query
           /\ json.variables.appId = <<"gid://partners/App/", stream.config.application_id>>
           /\ json.variables.first = ConfiguredPageSize(stream.config)
           /\ [json.variables EXCEPT !.after = None] = requests[1].json.variables

\* Three requests of a run whose page size is configured as the string "2":
\* after went from None to c1 to c2, first was 2 in the last.
C17_Witness ==
    /\ Len(requests) = 3
    /\ stream.config.num_results_per_call = PyStr(<<"2">>)
    /\ requests[1].json.variables.after = None
    /\ requests[2].json.variables.after = "c1"
    /\ requests[3].json.variables.after = "c2"
    /\ requests[3].json.variables.first = 2

\* C18: every request a run issues, the first and every later one, is a POST
\* to https://partners.shopify.com/{partner_id}/api/{api_version}/graphql.json
\* with nothing appended, and carries the configured api_key as the header
\* X-Shopify-Access-Token; the request in flight is the last one issued.
C18_EveryRequestPostsToEndpoint ==
    /\ \A i \in 1..Len(requests) :
           /\ requests[i].method = "POST"
           /\ requests[i].url = <<"https://partners.shopify.com/", stream.config.partner_id,
                                  "/api/", stream.config.api_version, "/graphql.json">>
           /\ requests[i].headers.XShopifyAccessToken = stream.config.api_key
    /\ requests # <<>> => request = requests[Len(requests)]

\* The third request of a transactions run under the second configuration:
\* a POST to the endpoint of partner p2 with the key k2.
C18_Witness ==
    /\ stream.name = "AllTransactions"
    /\ Len(requests) = 3
    /\ pc = "AWAITING"
    /\ request.method = "POST"
    /\ request.url = <<"https://partners.shopify.com/", "p2", "/api/", "2023-10",
                       "/graphql.json">>
    /\ request.headers.XShopifyAccessToken = "k2"

\* C19: two builds with the same method and the same (app id, first, after)
\* return the same document and the same variables, whichever object each
\* was called on, however the objects were constructed, and whatever was
\* built in between; the variables are the arguments; and a build leaves the
\* builder objects as they were.
C19_QueryBuilderPure ==
    /\ [](\A i \in 1..Len(builds) :
              /\ builds[i].result.variables =
                     [appId |-> builds[i].args[1], first |-> builds[i].args[2],
                      after |-> builds[i].args[3]]
              /\ \A j \in 1..Len(builds) :
                     (builds[i].method = builds[j].method
                          /\ builds[i].args = builds[j].args) =>
                         builds[i].result = builds[j].result)
    /\ [][apis' = apis]_vars

\* The same build on two differently constructed objects, with the same
\* result.
C19_Witness ==
    /\ Len(builds) = 2
    /\ apis[1] # apis[2]
    /\ builds[1].api = 1
    /\ builds[2].api = 2
    /\ builds[1].method = "get_events_credit_applied"
    /\ builds[2].method = builds[1].method
    /\ builds[1].args = builds[2].args
    /\ builds[1].args[3] = "c1"
    /\ builds[1].result = builds[2].result

\* The requests and the records of run r are those of the same stream read
\* alone and sent the same pages: request i is built by the stream of r from
\* the cursor of the last edge of its page i-1 (None for the first), and the
\* records are the edges of its own pages, mapped in order.
AsWhenRunAlone(r) ==
    LET base == StreamBase[r.stream.name]
        all == AllEdges(base, r.pages)
    IN /\ \A i \in 1..Len(r.requests) :
              r.requests[i] =
                  create_prepared_request(
                      r.stream, path(r.stream), request_headers(r.stream),
                      request_body_json(r.stream,
                                        IF i = 1 THEN None
                                        ELSE LastCursor(base, r.pages[i - 1])))
       /\ Len(r.records) <= Len(all)
       /\ \A i \in 1..Len(r.records) : MapEdge(base, all[i]) = Ok(r.records[i])
       /\ r.pc \in {"FETCHING", "AWAITING", "DONE"} => Len(r.records) = Len(all)
       /\ (r.pc = "FETCHING" /\ r.pages # <<>>) =>
              r.after = LastCursor(base, r.pages[Len(r.pages)])
       /\ (r.pc = "FETCHING" /\ r.pages = <<>>) => r.after = None

\* C20: with the steps of two runs interleaved, each run issues the requests
\* and yields the records of the same stream read alone; a step of one run
\* changes nothing the other holds, and a switch hands each run back exactly
\* what it held; and a run goes on while the other one has failed.
C20_StreamsIndependent ==
    /\ [](AsWhenRunAlone(ActiveRun) /\ AsWhenRunAlone(parked))
    /\ [][\/ parked' = parked
          \/ parked' = ActiveRun /\ ActiveRun' = parked]_vars
    /\ []((parked.pc = "FAILED" /\ pc = "FETCHING" /\ Len(requests) < MaxPages) =>
              ENABLED SendRequest)

\* The second request of one run is in flight after the other run failed in
\* transport on its own second request; both streams read the events path.
C20_Witness ==
    /\ parked.pc = "FAILED"
    /\ parked.error = "http_error"
    /\ Len(parked.requests) = 2
    /\ parked.stream.name = "CreditApplied"
    /\ parked.after # after
    /\ pc = "AWAITING"
    /\ Len(requests) = 2
    /\ Len(records) = 1

\* C21: get_updated_state returns the empty state for every current state and
\* every record, so the state kept after a run that yielded a record is
\* empty, and every run begins with after = None (its first request carries
\* no page token) whatever token the run before it ended with.
C21_EveryRunStartsFromNull ==
    /\ [][(run_no' = run_no + 1 /\ records # <<>>) => stream_state' = <<>>]_vars
    /\ [][run_no' = run_no + 1 => after' = None]_vars
    /\ [](requests # <<>> => requests[1].json.variables.after = None)

\* A second run of a stream whose first run began with a saved state, yielded
\* records and ended holding the page token c1: its first request carries no
\* token and the kept state is empty.
C21_Witness ==
    /\ run_no = 2
    /\ prev_after = "c1"
    /\ stream_state = <<>>
    /\ Len(requests) = 1
    /\ requests[1].json.variables.after = None

\* A node that carries its credit under appCredit and has no charge.
AppCreditOnly(node) == "appCredit" \in DOMAIN node /\ "charge" \notin DOMAIN node

\* C22: a credit stream takes every app_credit_* field of a record from the
\* node's charge, never from appCredit: a charge whose amount is
\* {amount "10.00", currencyCode "USD"} gives app_credit_amount "10.00" and
\* app_credit_currency_code "USD", no record comes from a node without
\* charge, and pulling the edge of a node that has appCredit and no charge
\* fails the run with a lookup error.
C22_CreditReadsCharge ==
    /\ [](Base = "Credit" =>
            \A i \in 1..Len(records) :
                LET node == AllEdges(Base, pages)[i].node
                IN /\ "charge" \in DOMAIN node
                   /\ records[i].app_credit_id = node.charge.id
                   /\ records[i].app_credit_test = node.charge.test
                   /\ records[i].app_credit_name = node.charge.name
                   /\ records[i].app_credit_amount = node.charge.amount.amount
                   /\ records[i].app_credit_currency_code = node.charge.amount.currencyCode
                   /\ node.charge.amount = [amount |-> "10.00", currencyCode |-> "USD"] =>
                          /\ records[i].app_credit_amount = "10.00"
                          /\ records[i].app_credit_currency_code = "USD")
    /\ [][(/\ Base = "Credit"
           /\ pc = "YIELDING"
           /\ idx < Len(EdgesOf(Base, response))
           /\ AppCreditOnly(EdgesOf(Base, response)[idx + 1].node)
           /\ pc' # "STOPPED") =>
              /\ pc' = "FAILED"
              /\ error' = "KeyError"
              /\ records' = records]_vars

\* A credit stream yielded the record of a node with a 10.00 USD charge, then
\* failed on the next edge, whose node has appCredit and no charge.
C22_Witness ==
    /\ Base = "Credit"
    /\ pc = "FAILED"
    /\ error = "KeyError"
    /\ Len(records) = 1
    /\ records[1].app_credit_id = "3"
    /\ records[1].app_credit_amount = "10.00"
    /\ records[1].app_credit_currency_code = "USD"
    /\ idx = 1
    /\ Len(EdgesOf(Base, response)) = 2
    /\ AppCreditOnly(EdgesOf(Base, response)[2].node)

\* The path family of the stream being read, by its name: /data/transactions
\* for the transactions stream, /data/app/events for every event stream.
OwnFamily ==
    IF stream.name = "AllTransactions" THEN <<"data", "transactions">>
    ELSE <<"data", "app", "events">>

\* A connection of one edge that reports another page.
DecoyConnection ==
    [pageInfo |-> [hasNextPage |-> TRUE, hasPreviousPage |-> FALSE],
     edges |-> <<[cursor |-> "c2", node |-> NodeCharge]>>]

\* `body` with the decoy connection put under the other path family.
WithOtherFamily(body) ==
    IF "data" \notin DOMAIN body THEN body
    ELSE [body EXCEPT !.data =
             @ @@ (IF stream.name = "AllTransactions"
                   THEN [app |-> [events |-> DecoyConnection]]
                   ELSE [transactions |-> DecoyConnection])]

\* C23: a stream reads the records, hasNextPage and the cursor of a page all
\* from one path family (/data/app/events for an event stream,
\* /data/transactions for the transactions stream) and never consults the
\* other: what it yields and the token it computes are those of its own
\* family's connection, they are unchanged by a connection put under the
\* other family, and a body that has only the other family gives a lookup
\* error for both.
C23_OnePathFamily ==
    pc = "YIELDING" =>
        LET own == GetPath(response, OwnFamily)
            gen == parse_response(Base, response)
            token == next_page_token(Base, response)
        IN /\ gen = parse_response(Base, WithOtherFamily(response))
           /\ token = next_page_token(Base, WithOtherFamily(response))
           /\ ~own.ok => (gen = <<KeyError>> /\ token = KeyError)
           /\ (own.ok /\ "edges" \in DOMAIN own.val) => gen = MapEdges(Base, own.val.edges)
           /\ (own.ok /\ "edges" \notin DOMAIN own.val) => gen = <<KeyError>>
           /\ (own.ok /\ "pageInfo" \notin DOMAIN own.val) => token = KeyError
           /\ (token.ok /\ token.val = None) => own.val.pageInfo.hasNextPage = FALSE
           /\ (token.ok /\ token.val # None) =>
                  /\ own.val.pageInfo.hasNextPage = TRUE
                  /\ token.val = own.val.edges[Len(own.val.edges)].cursor

\* The transactions stream has yielded one record of a page under
\* /data/transactions that reports another page: its token is the cursor of
\* that page's last edge, whatever lies under /data/app/events.
C23_Witness ==
    /\ stream.name = "AllTransactions"
    /\ pc = "YIELDING"
    /\ idx = 1
    /\ Len(records) = 1
    /\ GetPath(response, <<"data", "transactions", "edges">>).ok
    /\ ~GetPath(response, <<"data", "app", "events">>).ok
    /\ GetPath(WithOtherFamily(response), <<"data", "app", "events">>).ok
    /\ next_page_token(Base, response) = Ok("c1")
    /\ next_page_token(Base, WithOtherFamily(response)) = Ok("c1")

\* C24: the configuration and the stream objects are read-only for the life
\* of a sync: no step (the probe, listing the streams, building a request
\* body, parsing a page, computing the next page token) changes the config
\* mapping, a listed stream, or the url_base, application_id, api_key,
\* api_version or config of the stream being read, which stay as __init__
\* derived them from the configuration.
C24_ConfigAndStreamsReadOnly ==
    /\ [][/\ probe_config' = probe_config
          /\ catalog_calls # <<>> =>
                 /\ catalog_calls' = catalog_calls
                 /\ catalog_calls'[1].config = probe_config
          /\ pc # "IDLE" => stream' = stream]_vars
    /\ [](pc # "IDLE" =>
            /\ stream = StreamInit(stream.name, probe_config)
            /\ stream.config = probe_config
            /\ \E k \in 1..Len(catalog_calls[1].streams) :
                   catalog_calls[1].streams[k] = stream)

\* The probe has returned, the streams were listed, and the read of a credit
\* stream configured with the page size "2" has sent its second request and
\* yielded a record: the stream still has the fields of its construction.
C24_Witness ==
    /\ probe_pc = "returned"
    /\ catalog_calls # <<>>
    /\ pc = "AWAITING"
    /\ stream.name = "CreditApplied"
    /\ Len(requests) = 2
    /\ Len(records) = 1
    /\ probe_config.num_results_per_call = PyStr(<<"2">>)
    /\ stream.config = probe_config

\* A page without edges that reports another page.
EmptyPageReportsMore(base, body) ==
    /\ GetPath(body, PathTo(base, "edges")) = Ok(<<>>)
    /\ HasNextPage(base, body) = Ok(TRUE)

\* C25: from a page that reports hasNextPage true with an empty edge list the
\* only step is the failure of the run with an IndexError, raised while the
\* next cursor is computed: no record is yielded for the page, no further
\* request is issued, the page token is left as it was, and the run does not
\* end as if the page were the last one.
C25_EmptyPageWithMoreFails ==
    /\ [][(pc = "YIELDING" /\ EmptyPageReportsMore(Base, response)) =>
              /\ pc' = "FAILED"
              /\ error' = "IndexError"
              /\ records' = records
              /\ requests' = requests
              /\ in_flight' = 0
              /\ after' = after]_vars
    /\ [](error = "IndexError" =>
              /\ pc = "FAILED"
              /\ EmptyPageReportsMore(Base, response)
              /\ Len(requests) = Len(pages)
              /\ Len(records) = Len(EarlierEdges))

\* The second page of a run came empty and reported another page: the run
\* failed with an IndexError, holding the first page's record and token.
C25_Witness ==
    /\ pc = "FAILED"
    /\ error = "IndexError"
    /\ Len(pages) = 2
    /\ EmptyPageReportsMore(Base, pages[2])
    /\ Len(requests) = 2
    /\ Len(records) = 1
    /\ after = "c1"

\* The positions of the edges of the current page whose node lacks a key the
\* stream's mapping subscripts.
LackingEdges ==
    {i \in 1..Len(EdgesOf(Base, response)) :
        LacksReferencedKey(Base, EdgesOf(Base, response)[i].node)}

\* The first of them.
FirstLacking == CHOOSE k \in LackingEdges : \A j \in LackingEdges : k <= j

\* C26: records are mapped one edge at a time, as they are pulled.  While a
\* page whose edge k lacks a referenced key is being read, only edges before
\* k are yielded; and when the lookup error surfaces, the records of all
\* earlier pages and of the edges before k of this page, and no others, have
\* been yielded.
C26_MappingLazyPerEdge ==
    (response # NoDict /\ pc \in {"YIELDING", "FAILED", "STOPPED"} /\ LackingEdges # {}) =>
        /\ idx < FirstLacking
        /\ Len(records) = Len(EarlierEdges) + idx
        /\ (pc = "FAILED" /\ error = "KeyError") =>
               /\ idx = FirstLacking - 1
               /\ Len(records) = Len(EarlierEdges) + FirstLacking - 1
               /\ \A i \in 1..(FirstLacking - 1) :
                      Ok(records[Len(EarlierEdges) + i]) =
                          MapEdge(Base, EdgesOf(Base, response)[i])

\* A subscription stream failed on the second edge of its second page, whose
\* node has no charge: the record of the first page and that of the page's
\* first edge were yielded before.
C26_Witness ==
    /\ Base = "SubscriptionWithCost"
    /\ pc = "FAILED"
    /\ error = "KeyError"
    /\ Len(pages) = 2
    /\ Len(EarlierEdges) = 1
    /\ LackingEdges = {2}
    /\ Len(records) = 2
    /\ records[2].charge_id = "3"

\* The request of the probe ended in an outcome check_connection handles
\* itself: the request completed with a decoded JSON object, or the requests
\* library raised.
ProbeHandled ==
    /\ probe_pc \in {"returned", "raised"}
    /\ probe_reply.kind \in {"response", "exception"}

C28_BuilderCopiesAgree ==
    /\ DOMAIN PartnersEventTypes = DOMAIN EventTypes
    /\ \A i \in 1..Len(builds) :
           /\ builds[i].twin.query = builds[i].result.query
           /\ builds[i].twin.variables = builds[i].result.variables
           /\ builds[i].twin.variables.after = builds[i].args[3]

\* get_events_credit_applied called on both copies with first = 1 and the
\* token c1: one document for CREDIT_APPLIED, one set of variables.
C28_Witness ==
    /\ Len(builds) = 1
    /\ builds[1].method = "get_events_credit_applied"
    /\ builds[1].args = <<<<"gid://partners/App/", "111">>, 1, "c1">>
    /\ RequestedTypes(builds[1].twin.query) = <<"CREDIT_APPLIED">>
    /\ builds[1].twin = builds[1].result
====
